---- MODULE Spec2Model ----
(***************************************************************************)
(* The consent routes of the interaction API (src/unnamed/part_002):       *)
(*   POST <interactionPrefix>/consent   grants the selected organizations  *)
(*                                      and finalizes the consent;         *)
(*   GET  <interactionPrefix>/consent   assembles the consent page data.   *)
(* One request is handled at a time.  The POST handler is modelled with    *)
(* one action per await point, the GET handler with one action per stage   *)
(* (preconditions and loads, the global missing resource scopes, the       *)
(* organizations); a Promise.all is joined inside its stage, the order in  *)
(* which its promises settle being chosen by the action.                   *)
(***************************************************************************)
EXTENDS Integers, Sequences, FiniteSets, TLC

VARIABLES
    isDevFeaturesEnabled,  \* EnvSet.values.isDevFeaturesEnabled
    memberships,           \* the organizations the user is a member of
    resources,             \* rows of the resources
    grants,                \* rows of the user-consent-organizations relation
    request,               \* ctx of the request in flight
    pc,                    \* the handler's position
    body,                  \* ctx.body
    error,                 \* the error the handler threw
    calls,                 \* collaborator calls issued, in order
    local                  \* the handler's locals that outlive an await

vars == <<isDevFeaturesEnabled, memberships, resources, grants, request, pc, body, error, calls, local>>

(***************************************************************************)
(* Bounds of the model.                                                    *)
(***************************************************************************)
MaxOrganizationIds == 2   \* length of the body's organizationIds
MaxOIDCScopes == 3        \* length of the prompt's missing OIDC scopes
MaxIndicators == 2        \* entries of the prompt's missing resource scopes
MaxScopeNames == 2        \* scope names of one entry
MaxRequests == 2          \* times one POST request is issued

(***************************************************************************)
(* Values.                                                                 *)
(***************************************************************************)
\* ReservedResource.Organization and UserScope.Organizations (@logto/core-kit)
ReservedOrganization == "urn:logto:organization"
UserScopeOrganizations == "urn:logto:scope:organizations"

UserId == "u1"
ApplicationId == "app1"
RedirectUri == "https://app1/callback"
OrganizationIds == {"org1", "org2", "org3"}
RedirectTargets == {"https://op/auth/resume-a", "https://op/auth/resume-b"}

RealIndicator == "https://api.one"
UnknownIndicator == "https://api.gone"
Indicators == {ReservedOrganization, RealIndicator, UnknownIndicator}
ScopeNames == {"read", "write", "ghost"}
OIDCScopeNames == {"openid", "offline_access", UserScopeOrganizations, "profile"}

\* A JavaScript value of params: undefined, a number, or a string.
Undefined == [type |-> "undefined", value |-> ""]
NumberParam == [type |-> "number", value |-> "42"]
Str(s) == [type |-> "string", value |-> s]
\* `x && typeof x === 'string'`
Truthy(p) == p.type # "undefined" /\ p.value # ""
IsString(p) == p.type = "string"

NoSession == [present |-> FALSE, accountId |-> ""]
Session(u) == [present |-> TRUE, accountId |-> u]

\* An optional value: undefined, or present with a value.
Absent == [present |-> FALSE, value |-> <<>>]
Present(v) == [present |-> TRUE, value |-> v]

\* The sequences of distinct elements of S of length at most n.
SeqsNoDup(S, n) ==
    UNION { { s \in [1..k -> S] : \A i, j \in 1..k : i # j => s[i] # s[j] } : k \in 0..n }
\* The sequences of elements of S of length at most n.
SeqsUpTo(S, n) == UNION { [1..k -> S] : k \in 0..n }

\* array.filter(keep) is SelectSeq(s, keep), array.map(f) is
\* [i \in 1..Len(s) |-> f(s[i])], array.includes(x) is Includes(s, x).
Includes(s, x) == \E i \in 1..Len(s) : s[i] = x
RECURSIVE Concat(_)
Concat(ss) == IF ss = <<>> THEN <<>> ELSE Head(ss) \o Concat(Tail(ss))
Range(s) == { s[i] : i \in 1..Len(s) }

(***************************************************************************)
(* Errors and promise results.                                             *)
(***************************************************************************)
NoError == [name |-> "none", detail |-> <<>>]
SessionNotFound == [name |-> "RequestError", detail |-> <<"session.not_found">>]
InvalidClient == [name |-> "InvalidClient", detail |-> <<"client must be available">>]
InvalidRedirectUri ==
    [name |-> "InvalidRedirectUri", detail |-> <<"redirect_uri must be available">>]
InvalidTarget(kind, what) == [name |-> "InvalidTarget", detail |-> <<kind, what>>]
NotAMember == [name |-> "RequestError", detail |-> <<"organization.require_membership">>]

Resolved(v) == [ok |-> TRUE, value |-> v, error |-> NoError]
Rejected(e) == [ok |-> FALSE, value |-> <<>>, error |-> e]

\* Promise.all over `results`, which settle in the order `order` (a permutation
\* of their indices): the values by index when all resolve, else the rejection
\* that comes first.
FirstRejection(results, order) ==
    LET k == CHOOSE k \in 1..Len(order) :
                 /\ ~results[order[k]].ok
                 /\ \A j \in 1..(k - 1) : results[order[j]].ok
    IN results[order[k]].error
\* Mutant of PromiseAll: the values come in the order the promises settle in.
PromiseAllInSettlingOrder(results, order) ==
    IF \A i \in 1..Len(results) : results[i].ok
    THEN Resolved([k \in 1..Len(results) |-> results[order[k]].value])
    ELSE Rejected(FirstRejection(results, order))
\* Mutant of PromiseAll: the join resolves with the values of the promises
\* that resolved and drops the rejections.
PromiseAllFulfilled(results, order) ==
    LET fulfilled == SelectSeq(results, LAMBDA r : r.ok)
    IN Resolved([i \in 1..Len(fulfilled) |-> fulfilled[i].value])
PromiseAll(results, order) ==
    IF \A i \in 1..Len(results) : results[i].ok
    THEN Resolved([i \in 1..Len(results) |-> results[i].value])
    ELSE Rejected(FirstRejection(results, order))
Orders(n) == Permutations(1..n)

NoBody == [set |-> FALSE]
NoLocal == [missingResourceScopes |-> <<>>, redirectTo |-> ""]

(***************************************************************************)
(* Persistence and the other collaborators of the routes.                  *)
(***************************************************************************)
\* The rows of the resources when a request arrives.
ResourceStore ==
    { [id |-> "res1", name |-> "API One", indicator |-> RealIndicator] }
NotFound == [found |-> FALSE]
\* queries.resources.findResourceByIndicator
findResourceByIndicator(indicator) ==
    IF \E r \in resources : r.indicator = indicator
    THEN [found |-> TRUE,
          value |-> CHOOSE r \in resources : r.indicator = indicator]
    ELSE NotFound

\* queries.scopes.findScopeByNameAndResourceId
ScopeStore ==
    { [id |-> "s-read", name |-> "read", resourceId |-> "res1"],
      [id |-> "s-write", name |-> "write", resourceId |-> "res1"] }
findScopeByNameAndResourceId(scopeName, resourceId) ==
    IF \E s \in ScopeStore : s.name = scopeName /\ s.resourceId = resourceId
    THEN [found |-> TRUE,
          value |-> LET s == CHOOSE s \in ScopeStore :
                                 s.name = scopeName /\ s.resourceId = resourceId
                    IN [id |-> s.id, name |-> s.name]]
    ELSE NotFound

\* queries.organizations.scopes.findAll: the rows of [count, rows]
OrganizationScopeStore ==
    << [id |-> "os-read", name |-> "read"], [id |-> "os-write", name |-> "write"] >>

\* queries.organizations.relations.users.getOrganizationsByUserId
OrganizationStore ==
    << [id |-> "org1", name |-> "Acme"], [id |-> "org2", name |-> "Globex"],
       [id |-> "org3", name |-> "Initech"] >>
getOrganizationsByUserId(members, userId) ==
    LET IsMember(o) == userId = UserId /\ o.id \in members
    IN SelectSeq(OrganizationStore, IsMember)

\* findResourceScopes (#src/oidc/resource.js): the names of the scopes the
\* resource grants the user, directly (no organization) or through the
\* organization.
NoOrganization == ""
GrantedScopeNames(indicator, organizationId) ==
    CASE indicator = RealIndicator /\ organizationId = NoOrganization -> {"read"}
      [] indicator = RealIndicator /\ organizationId = "org1" -> {"read", "write"}
      [] indicator = RealIndicator /\ organizationId = "org2" -> {"write"}
      [] indicator = ReservedOrganization /\ organizationId = NoOrganization -> {"read", "write"}
      [] indicator = ReservedOrganization /\ organizationId = "org1" -> {"read"}
      [] indicator = ReservedOrganization /\ organizationId = "org2" -> {"write"}
      [] OTHER -> {}
findResourceScopes(indicator, userId, findFromOrganizations, organizationId) ==
    IF userId = UserId /\ (findFromOrganizations <=> organizationId # NoOrganization)
    THEN GrantedScopeNames(indicator, organizationId)
    ELSE {}

\* libraries.applications.validateUserConsentOrganizationMembership
validateUserConsentOrganizationMembership(members, userId, organizationIds) ==
    IF userId = UserId /\ \A i \in 1..Len(organizationIds) : organizationIds[i] \in members
    THEN Resolved(<<>>)
    ELSE Rejected(NotAMember)

\* queries.applications.userConsentOrganizations.insert: the rows after the
\* insert of `tuples`
insert(rows, tuples) == rows \cup Range(tuples)

\* getMissingScopes (#src/libraries/session.js)
getMissingScopes(prompt) ==
    [missingOIDCScope |-> prompt.missingOIDCScope,
     missingResourceScopes |-> prompt.missingResourceScopes]

\* missingResourceScopesGuard.parse: resource {id, name}, scopes {id, name}
missingResourceScopesGuardParse(r) ==
    [resource |-> [id |-> r.resource.id, name |-> r.resource.name],
     scopes |-> [i \in 1..Len(r.scopes) |->
                    [id |-> r.scopes[i].id, name |-> r.scopes[i].name]]]

\* consent (#src/libraries/session.js): the redirect targets it may return
consent(interactionDetails) == RedirectTargets

Call(op, args) == [op |-> op, args |-> args]
CallsOf(op) == SelectSeq(calls, LAMBDA c : c.op = op)

(***************************************************************************)
(* Requests.                                                               *)
(***************************************************************************)
Sessions == {NoSession, Session(UserId)}
ParamValues(s) == {Undefined, NumberParam, Str(""), Str(s)}
ConsentPrompt ==
    [missingOIDCScope |-> Present(<<UserScopeOrganizations>>),
     missingResourceScopes |-> Absent]
BodyOrganizationIds ==
    {Absent} \cup {Present(ids) : ids \in SeqsUpTo(OrganizationIds, MaxOrganizationIds)}
PostRequests ==
    { [method |-> "POST",
       interactionDetails |->
           [session |-> s,
            params |-> [client_id |-> c, redirect_uri |-> Str(RedirectUri)],
            prompt |-> ConsentPrompt],
       organizationIds |-> o] :
      s \in Sessions, c \in ParamValues(ApplicationId), o \in BodyOrganizationIds }

OIDCScopeLists ==
    {Absent} \cup {Present(l) : l \in SeqsNoDup(OIDCScopeNames, MaxOIDCScopes)}
ScopeNameLists == SeqsNoDup(ScopeNames, MaxScopeNames)
ResourceScopeMaps ==
    UNION { { [i \in 1..Len(indicators) |->
                 [indicator |-> indicators[i], scopeNames |-> names[i]]] :
              names \in [1..Len(indicators) -> ScopeNameLists] } :
            indicators \in SeqsNoDup(Indicators, MaxIndicators) }
MissingResourceScopes == {Absent} \cup {Present(m) : m \in ResourceScopeMaps}
GetRequest(s, c, r, oidc, resourceScopes) ==
    [method |-> "GET",
     interactionDetails |->
         [session |-> s,
          params |-> [client_id |-> c, redirect_uri |-> r],
          prompt |-> [missingOIDCScope |-> oidc, missingResourceScopes |-> resourceScopes]],
     organizationIds |-> Absent]
\* The GET requests checked: every combination of session and params with the
\* plain consent prompt; every list of missing OIDC scopes and every membership
\* with the plain missing resource scopes; every record of missing resource
\* scopes with the plain lists of missing OIDC scopes.
PlainOIDCScopeLists == {Absent, Present(<<UserScopeOrganizations>>)}
PlainMissingResourceScopes ==
    {Absent, Present(<< [indicator |-> RealIndicator, scopeNames |-> <<"read">>] >>)}
PlainMemberships == {"org1", "org2"}

Fail(e) ==
    /\ pc' = "failed"
    /\ error' = e

(***************************************************************************)
(* router.post(consentPath)                                                *)
(***************************************************************************)
\* Mutant of HasOrganizationIds: `organizationIds` alone, so that an empty
\* list counts as supplied.
HasOrganizationIdsDefined(organizationIds) == organizationIds.present

\* `organizationIds?.length`
HasOrganizationIds(organizationIds) ==
    organizationIds.present /\ Len(organizationIds.value) > 0

\* Mutant of GrantTuples: only the first organization is granted.
GrantTuplesFirstOnly(applicationId, userId, organizationIds) ==
    << <<applicationId, userId, organizationIds[1]>> >>

\* organizationIds.map((organizationId) => [applicationId, userId, organizationId])
GrantTuples(applicationId, userId, organizationIds) ==
    [i \in 1..Len(organizationIds) |-> <<applicationId, userId, organizationIds[i]>>]

\* Mutant of PostPreconditions: the client id is only tested for truthiness.
PostPreconditionsTruthyClient(session, applicationId) ==
    IF ~session.present
    THEN SessionNotFound
    ELSE IF ~Truthy(applicationId)
    THEN InvalidClient
    ELSE NoError

\* assertThat(session, ...); assertThat(applicationId && typeof applicationId
\* === 'string', ...): the error thrown, NoError when both hold.
PostPreconditions(session, applicationId) ==
    IF ~session.present
    THEN SessionNotFound
    ELSE IF ~(Truthy(applicationId) /\ IsString(applicationId))
    THEN InvalidClient
    ELSE NoError

\* From the entry of the handler to its first await.
PostConsent ==
    /\ pc = "received"
    /\ request.method = "POST"
    /\ LET interactionDetails == request.interactionDetails
           organizationIds == request.organizationIds
           session == interactionDetails.session
           applicationId == interactionDetails.params.client_id
       IN IF HasOrganizationIds(organizationIds)
          THEN IF PostPreconditions(session, applicationId) # NoError
               THEN Fail(PostPreconditions(session, applicationId)) /\ UNCHANGED calls
               ELSE /\ calls' = Append(calls,
                                   Call("validateUserConsentOrganizationMembership",
                                        <<session.accountId, organizationIds.value>>))
                    /\ pc' = "validating"
                    /\ UNCHANGED error
          ELSE /\ calls' = Append(calls, Call("consent", <<>>))
               /\ pc' = "consenting"
               /\ UNCHANGED error
    /\ UNCHANGED <<isDevFeaturesEnabled, memberships, resources, grants, request, body, local>>

\* Mutant of PostValidated: the validation is not awaited, the insert is
\* issued whether it resolves or rejects.
PostValidatedNotAwaited ==
    /\ pc = "validating"
    /\ LET interactionDetails == request.interactionDetails
           organizationIds == request.organizationIds.value
           applicationId == interactionDetails.params.client_id.value
           userId == interactionDetails.session.accountId
       IN /\ calls' = Append(calls,
                             Call("insert",
                                  GrantTuples(applicationId, userId, organizationIds)))
          /\ pc' = "inserting"
          /\ UNCHANGED error
    /\ UNCHANGED <<isDevFeaturesEnabled, memberships, resources, grants, request, body, local>>

\* The membership validation settles; the insert is issued when it resolved.
PostValidated ==
    /\ pc = "validating"
    /\ LET interactionDetails == request.interactionDetails
           organizationIds == request.organizationIds.value
           applicationId == interactionDetails.params.client_id.value
           userId == interactionDetails.session.accountId
           validated == validateUserConsentOrganizationMembership(
                            memberships, userId, organizationIds)
       IN IF ~validated.ok
          THEN Fail(validated.error) /\ UNCHANGED calls
          ELSE /\ calls' = Append(calls,
                              Call("insert",
                                   GrantTuples(applicationId, userId, organizationIds)))
               /\ pc' = "inserting"
               /\ UNCHANGED error
    /\ UNCHANGED <<isDevFeaturesEnabled, memberships, resources, grants, request, body, local>>

\* Mutant of PostInserted: the insert rejects when a row exists already.
PostInsertedUniqueViolation ==
    /\ pc = "inserting"
    /\ IF Range(calls[Len(calls)].args) \cap grants # {}
       THEN /\ Fail([name |-> "DatabaseError", detail |-> <<"unique_violation">>])
            /\ UNCHANGED <<grants, calls>>
       ELSE /\ grants' = insert(grants, calls[Len(calls)].args)
            /\ calls' = Append(calls, Call("consent", <<>>))
            /\ pc' = "consenting"
            /\ UNCHANGED error
    /\ UNCHANGED <<isDevFeaturesEnabled, memberships, resources, request, body, local>>

\* The insert resolves; consent is called.
PostInserted ==
    /\ pc = "inserting"
    /\ grants' = insert(grants, calls[Len(calls)].args)
    /\ calls' = Append(calls, Call("consent", <<>>))
    /\ pc' = "consenting"
    /\ UNCHANGED <<isDevFeaturesEnabled, memberships, resources, request, body, error, local>>

\* consent resolves with the redirect target; the body is set.
PostConsented ==
    /\ pc = "consenting"
    /\ \E redirectTo \in consent(request.interactionDetails) :
           /\ local' = [local EXCEPT !.redirectTo = redirectTo]
           /\ body' = [set |-> TRUE, redirectTo |-> redirectTo]
    /\ pc' = "done"
    /\ UNCHANGED <<isDevFeaturesEnabled, memberships, resources, grants, request, error, calls>>

\* The next POST request arrives once the handler has returned or thrown.
NextPostRequest ==
    /\ pc \in {"done", "failed"}
    /\ request.method = "POST"
    /\ request' \in PostRequests
    /\ pc' = "received"
    /\ body' = NoBody
    /\ error' = NoError
    /\ calls' = <<>>
    /\ local' = NoLocal
    /\ UNCHANGED <<isDevFeaturesEnabled, memberships, resources, grants>>

(***************************************************************************)
(* parseMissingResourceScopesInfo and filterAndParseMissingResourceScopes  *)
(***************************************************************************)
\* organizationScopes.find((scope) => scope.name === scopeName)
FindOrganizationScope(organizationScopes, scopeName) ==
    IF \E i \in 1..Len(organizationScopes) : organizationScopes[i].name = scopeName
    THEN [found |-> TRUE,
          value |-> organizationScopes[
                        CHOOSE i \in 1..Len(organizationScopes) :
                            /\ organizationScopes[i].name = scopeName
                            /\ \A j \in 1..(i - 1) : organizationScopes[j].name # scopeName]]
    ELSE NotFound

\* Mutant of OrganizationResourceEntry: the names that are not organization
\* scopes are filtered out, as for the other resources.
OrganizationResourceEntryLenient(resourceIndicator, scopeNames) ==
    LET organizationScopes == OrganizationScopeStore
        found == SelectSeq(scopeNames,
                     LAMBDA n : FindOrganizationScope(organizationScopes, n).found)
    IN Resolved(
           [resource |-> [id |-> resourceIndicator, name |-> resourceIndicator],
            scopes |-> [k \in 1..Len(found) |->
                FindOrganizationScope(organizationScopes, found[k]).value]])

\* The callback of the map for the reserved organization resource: every
\* scope name must be the name of an organization scope.
OrganizationResourceEntry(resourceIndicator, scopeNames) ==
    LET organizationScopes == OrganizationScopeStore
        Missing(k) == ~FindOrganizationScope(organizationScopes, scopeNames[k]).found
    IN IF \E k \in 1..Len(scopeNames) : Missing(k)
       THEN LET k == CHOOSE k \in 1..Len(scopeNames) :
                         Missing(k) /\ \A j \in 1..(k - 1) : ~Missing(j)
            IN Rejected(InvalidTarget("organization scope", scopeNames[k]))
       ELSE Resolved(
                [resource |-> [id |-> resourceIndicator, name |-> resourceIndicator],
                 scopes |-> [k \in 1..Len(scopeNames) |->
                     FindOrganizationScope(organizationScopes, scopeNames[k]).value]])

\* Mutant of ResourceEntry: a scope that is not found is asserted on, as for
\* the organization resource.
ResourceEntryStrict(resourceIndicator, scopeNames) ==
    LET resource == findResourceByIndicator(resourceIndicator)
    IN IF ~resource.found
       THEN Rejected(InvalidTarget("resource", resourceIndicator))
       ELSE LET Missing(k) ==
                    ~findScopeByNameAndResourceId(scopeNames[k], resource.value.id).found
            IN IF \E k \in 1..Len(scopeNames) : Missing(k)
               THEN Rejected(InvalidTarget("scope",
                        scopeNames[CHOOSE k \in 1..Len(scopeNames) : Missing(k)]))
               ELSE Resolved(
                        [resource |-> resource.value,
                         scopes |-> [k \in 1..Len(scopeNames) |->
                             findScopeByNameAndResourceId(
                                 scopeNames[k], resource.value.id).value]])

\* The callback of the map for any other resource: the resource must exist,
\* the scopes that are not found are filtered out.  The inner Promise.all
\* joins lookups that do not reject, so the order they settle in is not drawn.
ResourceEntry(resourceIndicator, scopeNames) ==
    LET resource == findResourceByIndicator(resourceIndicator)
    IN IF ~resource.found
       THEN Rejected(InvalidTarget("resource", resourceIndicator))
       ELSE LET lookups == [k \in 1..Len(scopeNames) |->
                               Resolved(findScopeByNameAndResourceId(
                                            scopeNames[k], resource.value.id))]
                scopes == PromiseAll(lookups, [k \in 1..Len(scopeNames) |-> k]).value
                found == SelectSeq(scopes, LAMBDA scope : scope.found)
            IN Resolved([resource |-> resource.value,
                         scopes |-> [k \in 1..Len(found) |-> found[k].value]])

MissingResourceScopesEntry(resourceIndicator, scopeNames) ==
    IF resourceIndicator = ReservedOrganization
    THEN OrganizationResourceEntry(resourceIndicator, scopeNames)
    ELSE ResourceEntry(resourceIndicator, scopeNames)

\* Mutant of NonEmptyResourceScopes: the records without scopes are kept.
AllResourceScopes(resourcesWithScopes) ==
    [i \in 1..Len(resourcesWithScopes) |->
        missingResourceScopesGuardParse(resourcesWithScopes[i])]

\* .filter(({ scopes }) => scopes.length > 0).map(missingResourceScopesGuard.parse)
NonEmptyResourceScopes(resourcesWithScopes) ==
    LET kept == SelectSeq(resourcesWithScopes, LAMBDA r : Len(r.scopes) > 0)
    IN [i \in 1..Len(kept) |-> missingResourceScopesGuardParse(kept[i])]

\* missingResourceScopes: an optional sequence of [indicator, scopeNames]
\* entries, in the iteration order of the record.
parseMissingResourceScopesInfo(missingResourceScopes, order) ==
    IF ~missingResourceScopes.present
    THEN Resolved(<<>>)
    ELSE LET entries == missingResourceScopes.value
             resourcesWithScopes ==
                 PromiseAll([i \in 1..Len(entries) |->
                                MissingResourceScopesEntry(
                                    entries[i].indicator, entries[i].scopeNames)],
                            order)
         IN IF ~resourcesWithScopes.ok
            THEN resourcesWithScopes
            ELSE Resolved(NonEmptyResourceScopes(resourcesWithScopes.value))

\* Object.fromEntries: a key keeps its first place and its last value.
ObjectFromEntries(entries) ==
    LET n == Len(entries)
        First(i) == \A j \in 1..(i - 1) : entries[j].indicator # entries[i].indicator
        Last(i) == CHOOSE j \in i..n :
                       /\ entries[j].indicator = entries[i].indicator
                       /\ \A k \in (j + 1)..n : entries[k].indicator # entries[i].indicator
        keys == SelectSeq([i \in 1..n |-> i], First)
    IN [k \in 1..Len(keys) |-> entries[Last(keys[k])]]

\* Mutant of FilteredEntry: the names are filtered whatever the flag.
FilteredEntryAlways(devFeatures, entry, userId, organizationId) ==
    LET scopes == findResourceScopes(entry.indicator, userId,
                                     organizationId # NoOrganization, organizationId)
    IN [indicator |-> entry.indicator,
        scopeNames |-> SelectSeq(entry.scopeNames, LAMBDA scope : scope \in scopes)]

\* The callback of the map of filterAndParseMissingResourceScopes.
FilteredEntry(devFeatures, entry, userId, organizationId) ==
    IF ~devFeatures
    THEN entry
    ELSE LET scopes == findResourceScopes(entry.indicator, userId,
                                          organizationId # NoOrganization, organizationId)
         IN [indicator |-> entry.indicator,
             scopeNames |-> SelectSeq(entry.scopeNames, LAMBDA scope : scope \in scopes)]

filterAndParseMissingResourceScopes(devFeatures, resourceScopes, userId, organizationId, order) ==
    LET filteredResourceScopes ==
            ObjectFromEntries([i \in 1..Len(resourceScopes) |->
                FilteredEntry(devFeatures, resourceScopes[i], userId, organizationId)])
    IN parseMissingResourceScopesInfo(Present(filteredResourceScopes), order)

\* The findResourceScopes calls one filterAndParseMissingResourceScopes issues.
ResolverCalls(devFeatures, resourceScopes, userId, organizationId) ==
    IF ~devFeatures
    THEN <<>>
    ELSE [i \in 1..Len(resourceScopes) |->
             Call("findResourceScopes",
                  <<resourceScopes[i].indicator, userId, organizationId>>)]

(***************************************************************************)
(* router.get(consentPath)                                                 *)
(***************************************************************************)
\* `missingResourceScopes: allMissingResourceScopes = {}`
AllMissingResourceScopes(prompt) ==
    LET missing == getMissingScopes(prompt).missingResourceScopes
    IN IF missing.present THEN missing.value ELSE <<>>

\* Mutant of RequestsOrganizations: any missing OIDC scope will do.
RequestsAnyOIDCScope(missingOIDCScope) ==
    missingOIDCScope.present /\ Len(missingOIDCScope.value) > 0

\* missingOIDCScope?.includes(UserScope.Organizations)
RequestsOrganizations(missingOIDCScope) ==
    missingOIDCScope.present /\ Includes(missingOIDCScope.value, UserScopeOrganizations)

\* Mutant of ConsentPageOIDCScope: only 'openid' is filtered out.
ConsentPageOIDCScopeOpenidOnly(missingOIDCScope) ==
    IF ~missingOIDCScope.present
    THEN Absent
    ELSE Present(SelectSeq(missingOIDCScope.value, LAMBDA scope : scope # "openid"))

\* missingOIDCScope?.filter((scope) => scope !== 'openid' && scope !== 'offline_access')
ConsentPageOIDCScope(missingOIDCScope) ==
    IF ~missingOIDCScope.present
    THEN Absent
    ELSE Present(SelectSeq(missingOIDCScope.value,
                           LAMBDA scope : scope # "openid" /\ scope # "offline_access"))

\* Mutant of OrganizationWithMissingResourceScopes: the missing resource
\* scopes of an organization are resolved without the organization.
OrganizationWithGlobalMissingResourceScopes(devFeatures, organization, resourceScopes, userId, order) ==
    IF ~devFeatures
    THEN Resolved([name |-> organization.name, id |-> organization.id])
    ELSE LET missingResourceScopes ==
                 filterAndParseMissingResourceScopes(
                     devFeatures, resourceScopes, userId, NoOrganization, order)
         IN IF ~missingResourceScopes.ok
            THEN missingResourceScopes
            ELSE Resolved([name |-> organization.name, id |-> organization.id,
                           missingResourceScopes |-> missingResourceScopes.value])

\* The callback of the map over the organizations.
OrganizationWithMissingResourceScopes(devFeatures, organization, resourceScopes, userId, order) ==
    IF ~devFeatures
    THEN Resolved([name |-> organization.name, id |-> organization.id])
    ELSE LET missingResourceScopes ==
                 filterAndParseMissingResourceScopes(
                     devFeatures, resourceScopes, userId, organization.id, order)
         IN IF ~missingResourceScopes.ok
            THEN missingResourceScopes
            ELSE Resolved([name |-> organization.name, id |-> organization.id,
                           missingResourceScopes |-> missingResourceScopes.value])

\* Mutant of GetPreconditions: the redirect uri is only tested for truthiness.
GetPreconditionsTruthyRedirectUri(session, clientId, redirectUri) ==
    IF ~session.present
    THEN SessionNotFound
    ELSE IF ~(Truthy(clientId) /\ IsString(clientId))
    THEN InvalidClient
    ELSE IF ~Truthy(redirectUri)
    THEN InvalidRedirectUri
    ELSE NoError

\* The three assertThat of the handler: the error thrown, NoError when all hold.
GetPreconditions(session, clientId, redirectUri) ==
    IF ~session.present
    THEN SessionNotFound
    ELSE IF ~(Truthy(clientId) /\ IsString(clientId))
    THEN InvalidClient
    ELSE IF ~(Truthy(redirectUri) /\ IsString(redirectUri))
    THEN InvalidRedirectUri
    ELSE NoError

\* From the entry of the handler to the await of the global
\* filterAndParseMissingResourceScopes.
GetConsent ==
    /\ pc = "received"
    /\ request.method = "GET"
    /\ LET interactionDetails == request.interactionDetails
           session == interactionDetails.session
           clientId == interactionDetails.params.client_id
           redirectUri == interactionDetails.params.redirect_uri
       IN IF GetPreconditions(session, clientId, redirectUri) # NoError
          THEN Fail(GetPreconditions(session, clientId, redirectUri)) /\ UNCHANGED calls
          ELSE /\ calls' = calls
                     \o << Call("findApplicationById", <<clientId.value>>),
                           Call("safeFindSignInExperienceByApplicationId", <<clientId.value>>),
                           Call("findUserById", <<session.accountId>>) >>
                     \o ResolverCalls(isDevFeaturesEnabled,
                                      AllMissingResourceScopes(interactionDetails.prompt),
                                      session.accountId, NoOrganization)
               /\ pc' = "resolving"
               /\ UNCHANGED error
    /\ UNCHANGED <<isDevFeaturesEnabled, memberships, resources, grants, request, body, local>>

\* The global filterAndParseMissingResourceScopes settles; the organizations
\* are looked up when the application requests the organizations scope.
GetMissingResourceScopes ==
    /\ pc = "resolving"
    /\ LET interactionDetails == request.interactionDetails
           accountId == interactionDetails.session.accountId
           allMissingResourceScopes == AllMissingResourceScopes(interactionDetails.prompt)
           missingOIDCScope == getMissingScopes(interactionDetails.prompt).missingOIDCScope
       IN \E order \in Orders(Len(allMissingResourceScopes)) :
            LET missingResourceScopes ==
                    filterAndParseMissingResourceScopes(
                        isDevFeaturesEnabled, allMissingResourceScopes, accountId,
                        NoOrganization, order)
            IN IF ~missingResourceScopes.ok
               THEN Fail(missingResourceScopes.error) /\ UNCHANGED <<calls, local>>
               ELSE /\ local' = [local EXCEPT
                                    !.missingResourceScopes = missingResourceScopes.value]
                    /\ calls' = IF RequestsOrganizations(missingOIDCScope)
                                 THEN Append(calls,
                                             Call("getOrganizationsByUserId", <<accountId>>))
                                 ELSE calls
                    /\ pc' = "organizations"
                    /\ UNCHANGED error
    /\ UNCHANGED <<isDevFeaturesEnabled, memberships, resources, grants, request, body>>

\* The organizations of the user, their missing resource scopes, the body.
GetOrganizations ==
    /\ pc = "organizations"
    /\ LET interactionDetails == request.interactionDetails
           accountId == interactionDetails.session.accountId
           clientId == interactionDetails.params.client_id
           redirectUri == interactionDetails.params.redirect_uri
           allMissingResourceScopes == AllMissingResourceScopes(interactionDetails.prompt)
           missingOIDCScope == getMissingScopes(interactionDetails.prompt).missingOIDCScope
           organizations == IF RequestsOrganizations(missingOIDCScope)
                            THEN getOrganizationsByUserId(memberships, accountId)
                            ELSE <<>>
       IN \E orders \in [1..Len(organizations) -> Orders(Len(allMissingResourceScopes))],
             order \in Orders(Len(organizations)) :
            LET organizationsWithMissingResourceScopes ==
                    PromiseAll(
                        [i \in 1..Len(organizations) |->
                            OrganizationWithMissingResourceScopes(
                                isDevFeaturesEnabled, organizations[i],
                                allMissingResourceScopes, accountId, orders[i])],
                        order)
            IN /\ calls' = calls \o
                     Concat([i \in 1..Len(organizations) |->
                         ResolverCalls(isDevFeaturesEnabled, allMissingResourceScopes,
                                       accountId, organizations[i].id)])
               /\ IF ~organizationsWithMissingResourceScopes.ok
                  THEN Fail(organizationsWithMissingResourceScopes.error) /\ UNCHANGED body
                  ELSE /\ body' =
                            [set |-> TRUE,
                             application |-> [id |-> clientId.value],
                             user |-> [id |-> accountId],
                             organizations |-> organizationsWithMissingResourceScopes.value,
                             missingOIDCScope |-> ConsentPageOIDCScope(missingOIDCScope),
                             missingResourceScopes |-> local.missingResourceScopes,
                             redirectUri |-> redirectUri.value]
                       /\ pc' = "done"
                       /\ UNCHANGED error
    /\ UNCHANGED <<isDevFeaturesEnabled, memberships, resources, grants, request, local>>

InitGet ==
    /\ isDevFeaturesEnabled \in BOOLEAN
    /\ resources = ResourceStore
    /\ grants = {}
    /\ \/ /\ memberships = PlainMemberships
          /\ request \in { GetRequest(s, c, r, ConsentPrompt.missingOIDCScope,
                                       ConsentPrompt.missingResourceScopes) :
                            s \in Sessions, c \in ParamValues(ApplicationId),
                            r \in ParamValues(RedirectUri) }
       \/ /\ memberships \in SUBSET OrganizationIds
          /\ request \in { GetRequest(Session(UserId), Str(ApplicationId), Str(RedirectUri),
                                       oidc, resourceScopes) :
                            oidc \in OIDCScopeLists,
                            resourceScopes \in PlainMissingResourceScopes }
       \/ /\ memberships = PlainMemberships
          /\ request \in { GetRequest(Session(UserId), Str(ApplicationId), Str(RedirectUri),
                                       oidc, resourceScopes) :
                            oidc \in PlainOIDCScopeLists,
                            resourceScopes \in MissingResourceScopes }
    /\ pc = "received"
    /\ body = NoBody
    /\ error = NoError
    /\ calls = <<>>
    /\ local = NoLocal

NextGet ==
    \/ GetConsent
    \/ GetMissingResourceScopes
    \/ GetOrganizations

SpecGet == InitGet /\ [][NextGet]_vars

\* Another request deletes a resource while the GET handler is at an await.
DeleteResource ==
    /\ request.method = "GET"
    /\ pc \in {"resolving", "organizations"}
    /\ \E r \in resources : resources' = resources \ {r}
    /\ UNCHANGED <<isDevFeaturesEnabled, memberships, grants, request, pc, body, error,
                   calls, local>>

NextGetRace ==
    \/ GetConsent
    \/ GetMissingResourceScopes
    \/ GetOrganizations
    \/ DeleteResource

SpecGetRace == InitGet /\ [][NextGetRace]_vars

InitPost ==
    /\ isDevFeaturesEnabled \in BOOLEAN
    /\ resources = ResourceStore
    /\ memberships \in SUBSET OrganizationIds
    /\ grants = {}
    /\ request \in PostRequests
    /\ pc = "received"
    /\ body = NoBody
    /\ error = NoError
    /\ calls = <<>>
    /\ local = NoLocal

NextPost ==
    \/ PostConsent
    \/ PostValidated
    \/ PostInserted
    \/ PostConsented
    \/ NextPostRequest

SpecPost == InitPost /\ [][NextPost]_vars

\* The same POST request is issued again once the handler has returned; the
\* log of the calls runs on over the requests.
ConsentCalls == Cardinality({ i \in 1..Len(calls) : calls[i].op = "consent" })
RepeatPostRequest ==
    /\ pc = "done"
    /\ request.method = "POST"
    /\ ConsentCalls < MaxRequests
    /\ pc' = "received"
    /\ body' = NoBody
    /\ error' = NoError
    /\ local' = NoLocal
    /\ UNCHANGED <<isDevFeaturesEnabled, memberships, resources, grants, request, calls>>

NextRepeat ==
    \/ PostConsent
    \/ PostValidated
    \/ PostInserted
    \/ PostConsented
    \/ RepeatPostRequest

SpecRepeat == InitPost /\ [][NextRepeat]_vars

(***************************************************************************)
(* Properties of POST consent, checked under SpecPost.                     *)
(***************************************************************************)
PostSession == request.interactionDetails.session
PostClientId == request.interactionDetails.params.client_id
\* The body lists at least one organization id.
ListsOrganizations ==
    /\ request.method = "POST"
    /\ request.organizationIds.present
    /\ request.organizationIds.value # <<>>
ListedOrganizations == Range(request.organizationIds.value)
\* The interaction has a session and a string client id that is not empty.
PostInteractionUsable ==
    /\ PostSession.present
    /\ PostClientId.type = "string"
    /\ PostClientId.value # ""
\* The handler has neither returned nor thrown: the next step is its own.
Handling == pc \notin {"done", "failed"}

\* C1: a POST that lists organizations, one of which the user is not a member
\* of, fails with the membership error; it never issues an insert, never
\* changes the grants (not even for the listed organizations the user is a
\* member of), never calls consent and never sets the body.
C1_NonMember ==
    /\ ListsOrganizations
    /\ PostInteractionUsable
    /\ \E o \in ListedOrganizations : o \notin memberships
C1_MembershipFailsWithoutEffect ==
    [][ C1_NonMember /\ Handling =>
          /\ grants' = grants
          /\ pc' \in {"validating", "failed"}
          /\ pc' = "failed" => error' = NotAMember
          /\ \A i \in 1..Len(calls') : calls'[i].op \notin {"insert", "consent"}
          /\ body' = NoBody ]_vars
C1_Witness ==
    /\ C1_NonMember
    /\ \E o \in ListedOrganizations : o \in memberships
    /\ pc = "failed"
    /\ error = NotAMember
    /\ <<PostClientId.value, PostSession.accountId, "org1">> \notin grants
    /\ "org1" \in ListedOrganizations \cap memberships

\* C2: a POST that lists organizations the user is a member of, all of them,
\* issues one insert, after the membership validation, of one tuple
\* (client_id, accountId, organizationId) per listed id and nothing else; the
\* insert adds just these tuples to the grants; the body carries the redirect
\* target consent returned.
C2_AllMember ==
    /\ ListsOrganizations
    /\ PostInteractionUsable
    /\ \A o \in ListedOrganizations : o \in memberships
C2_Tuples ==
    [i \in 1..Len(request.organizationIds.value) |->
        <<PostClientId.value, PostSession.accountId, request.organizationIds.value[i]>>]
C2_GrantsPerOrganization ==
    [][ /\ \A i \in 1..Len(calls') :
              calls'[i].op = "insert" =>
                  /\ i = 2
                  /\ calls'[1].op = "validateUserConsentOrganizationMembership"
                  /\ \A o \in ListedOrganizations' : o \in memberships'
                  /\ calls'[i].args = C2_Tuples'
        /\ grants' # grants =>
              /\ C2_AllMember
              /\ Handling
              /\ calls[Len(calls)].op = "insert"
              /\ grants' = grants \cup
                    { <<PostClientId.value, PostSession.accountId, o>> :
                        o \in ListedOrganizations }
        /\ C2_AllMember' /\ pc' = "done" =>
              /\ Len(calls') = 3
              /\ calls'[2].op = "insert"
              /\ calls'[3].op = "consent"
              /\ \A o \in ListedOrganizations' :
                    <<PostClientId'.value, PostSession'.accountId, o>> \in grants'
              /\ body' = [set |-> TRUE, redirectTo |-> local'.redirectTo]
              /\ local'.redirectTo \in RedirectTargets ]_vars
C2_Witness ==
    /\ C2_AllMember
    /\ request.organizationIds.value = <<"org2", "org1">>
    /\ pc = "done"
    /\ calls[2].args = << <<ApplicationId, UserId, "org2">>, <<ApplicationId, UserId, "org1">> >>
    /\ grants = { <<ApplicationId, UserId, "org1">>, <<ApplicationId, UserId, "org2">> }
    /\ body.redirectTo \in RedirectTargets

\* C3: a POST whose organizationIds is absent or empty runs no membership
\* validation, issues no insert and changes no grant, does not fail on a
\* missing session or client id, and calls consent once, whose redirect
\* target is the body's redirectTo.
C3_NoOrganizations ==
    /\ request.method = "POST"
    /\ ~request.organizationIds.present \/ request.organizationIds.value = <<>>
C3_FinalizesWithoutOrganizations ==
    [][ C3_NoOrganizations /\ Handling =>
          /\ grants' = grants
          /\ pc' \in {"consenting", "done"}
          /\ error' = NoError
          /\ Len(calls') = 1
          /\ calls'[1].op = "consent"
          /\ pc' = "done" =>
                /\ body' = [set |-> TRUE, redirectTo |-> local'.redirectTo]
                /\ local'.redirectTo \in RedirectTargets ]_vars
C3_Witness ==
    /\ C3_NoOrganizations
    /\ request.organizationIds = Present(<<>>)
    /\ ~PostSession.present
    /\ PostClientId = Undefined
    /\ pc = "done"
    /\ Len(calls) = 1
    /\ body.redirectTo \in RedirectTargets

\* C4: a POST that lists organizations fails with session.not_found when the
\* interaction has no session and, the session being checked first, with
\* invalid-client when it has a session and its client_id is missing or not a
\* string; either way it calls no collaborator (no membership validation, no
\* insert, no consent), changes no grant and sets no body.
C4_Unusable ==
    /\ ListsOrganizations
    /\ ~PostSession.present \/ PostClientId.type # "string"
C4_PreconditionFailures ==
    [][ C4_Unusable /\ Handling =>
          /\ grants' = grants
          /\ pc' = "failed"
          /\ ~PostSession.present => error' = SessionNotFound
          /\ PostSession.present => error' = InvalidClient
          /\ calls' = <<>>
          /\ body' = NoBody ]_vars
C4_Witness ==
    /\ ListsOrganizations
    /\ PostSession.present
    /\ PostClientId = NumberParam
    /\ \A o \in ListedOrganizations : o \in memberships
    /\ pc = "failed"
    /\ error = InvalidClient
    /\ calls = <<>>

(***************************************************************************)
(* Properties of GET consent, checked under SpecGet.                       *)
(***************************************************************************)
GetSession == request.interactionDetails.session
GetClientId == request.interactionDetails.params.client_id
GetRedirectUri == request.interactionDetails.params.redirect_uri
PromptOIDCScope == request.interactionDetails.prompt.missingOIDCScope
\* The entries of the prompt's missing resource scopes, none when absent.
PromptResourceScopes ==
    LET m == request.interactionDetails.prompt.missingResourceScopes
    IN IF m.present THEN m.value ELSE <<>>
\* A usable string: present, a string, not empty.
UsableString(p) == p.type = "string" /\ p.value # ""
GetUsable ==
    /\ request.method = "GET"
    /\ GetSession.present
    /\ UsableString(GetClientId)
    /\ UsableString(GetRedirectUri)
Responded == request.method = "GET" /\ pc = "done"
\* The lists of missing resource scopes of a response: the global one and the
\* one of each organization that carries one.
ResponseLists ==
    {body.missingResourceScopes} \cup
    { body.organizations[i].missingResourceScopes :
        i \in { j \in 1..Len(body.organizations) :
                   "missingResourceScopes" \in DOMAIN body.organizations[j] } }
ResponseRecords == UNION { Range(l) : l \in ResponseLists }

\* C5: the missingOIDCScope of a response holds neither 'openid' nor
\* 'offline_access' and holds every other missing OIDC scope of the prompt, in
\* the prompt's order (and is absent when the prompt's list is absent).
ProtocolScopes == {"openid", "offline_access"}
IsOrderedSelection(all, kept) ==
    \E f \in [1..Len(kept) -> 1..Len(all)] :
        /\ \A k \in 1..Len(kept) : kept[k] = all[f[k]]
        /\ \A k, l \in 1..Len(kept) : k < l => f[k] < f[l]
        /\ \A i \in 1..Len(all) :
              all[i] \notin ProtocolScopes => \E k \in 1..Len(kept) : f[k] = i
C5_ProtocolScopesNeverSurfaced ==
    Responded =>
        /\ GetUsable
        /\ body.missingOIDCScope.present = PromptOIDCScope.present
        /\ PromptOIDCScope.present =>
              /\ Range(body.missingOIDCScope.value) \cap ProtocolScopes = {}
              /\ IsOrderedSelection(PromptOIDCScope.value, body.missingOIDCScope.value)
C5_Witness ==
    /\ Responded
    /\ PromptOIDCScope = Present(<<"profile", "offline_access", UserScopeOrganizations>>)
    /\ body.missingOIDCScope = Present(<<"profile", UserScopeOrganizations>>)

\* C6: when the prompt's missing OIDC scopes are absent or do not hold the
\* organizations scope, getOrganizationsByUserId is never called and the
\* organizations of the response are the empty list, whatever the memberships.
C6_OrganizationsNotRequested ==
    /\ request.method = "GET"
    /\ ~PromptOIDCScope.present \/ UserScopeOrganizations \notin Range(PromptOIDCScope.value)
C6_NoOrganizationsWithoutScope ==
    C6_OrganizationsNotRequested =>
        /\ \A i \in 1..Len(calls) : calls[i].op # "getOrganizationsByUserId"
        /\ \A i \in 1..Len(calls) :
              calls[i].op = "findResourceScopes" => calls[i].args[3] = NoOrganization
        /\ Responded => body.organizations = <<>>
C6_Witness ==
    /\ C6_OrganizationsNotRequested
    /\ Responded
    /\ PromptOIDCScope.present
    /\ PromptOIDCScope.value # <<>>
    /\ memberships = OrganizationIds
    /\ body.organizations = <<>>

\* C7: the names of the organization scopes, and the original claim: a prompt
\* whose entry of the reserved organization indicator holds a name that is no
\* organization scope never gets a response, and fails with invalid-target.
OrganizationScopeNames ==
    { OrganizationScopeStore[i].name : i \in 1..Len(OrganizationScopeStore) }
C7_UnknownOrganizationScope ==
    /\ GetUsable
    /\ \E i \in 1..Len(PromptResourceScopes) :
          /\ PromptResourceScopes[i].indicator = ReservedOrganization
          /\ Range(PromptResourceScopes[i].scopeNames) \ OrganizationScopeNames # {}
C7_Original ==
    C7_UnknownOrganizationScope =>
        /\ pc \notin {"organizations", "done"}
        /\ pc = "failed" => error.name = "InvalidTarget"
\* C7 as amended: with the dev features disabled such a prompt never gets a
\* response and fails with invalid-target; with them enabled no request fails
\* on an organization scope name, the names the resolver does not return are
\* filtered out first and are in no record of the response.
C7_InvalidTargetWhenUnfiltered ==
    /\ ~isDevFeaturesEnabled /\ C7_UnknownOrganizationScope =>
          /\ pc \notin {"organizations", "done"}
          /\ pc = "failed" => error.name = "InvalidTarget"
    /\ isDevFeaturesEnabled /\ request.method = "GET" /\ pc = "failed" =>
          error.detail[1] # "organization scope"
    /\ isDevFeaturesEnabled /\ Responded =>
          \A r \in ResponseRecords :
              r.resource.id = ReservedOrganization =>
                  \A k \in 1..Len(r.scopes) : r.scopes[k].name \in OrganizationScopeNames
C7_Witness ==
    /\ ~isDevFeaturesEnabled
    /\ C7_UnknownOrganizationScope
    /\ PromptResourceScopes =
           << [indicator |-> ReservedOrganization, scopeNames |-> <<"read", "ghost">>] >>
    /\ pc = "failed"
    /\ error = InvalidTarget("organization scope", "ghost")

\* C8: an entry whose indicator is not the reserved one and resolves to no
\* resource makes the request fail with invalid-target before any response,
\* whatever its scope names, none included; the entries of a resource that
\* exists never make the request fail, and the scopes of its records are
\* scopes of that resource that were asked for, the other names being left out.
ResolvesToResource(indicator) == \E r \in ResourceStore : r.indicator = indicator
PromptIndicators ==
    { PromptResourceScopes[i].indicator : i \in 1..Len(PromptResourceScopes) }
RequestedNames(indicator) ==
    UNION { Range(PromptResourceScopes[i].scopeNames) :
              i \in { j \in 1..Len(PromptResourceScopes) :
                         PromptResourceScopes[j].indicator = indicator } }
C8_ResourceFatalScopeTolerated ==
    /\ /\ GetUsable
       /\ \E indicator \in PromptIndicators :
             indicator # ReservedOrganization /\ ~ResolvesToResource(indicator)
       => /\ pc \notin {"organizations", "done"}
          /\ pc = "failed" => error.name = "InvalidTarget"
    /\ /\ GetUsable
       /\ \A indicator \in PromptIndicators : ResolvesToResource(indicator)
       => pc # "failed"
    /\ Responded =>
          \A r \in ResponseRecords :
              \A res \in ResourceStore :
                  r.resource.id = res.id =>
                      \A k \in 1..Len(r.scopes) :
                          /\ r.scopes[k].name \in RequestedNames(res.indicator)
                          /\ \E s \in ScopeStore :
                                /\ s.resourceId = res.id
                                /\ s.id = r.scopes[k].id
                                /\ s.name = r.scopes[k].name
C8_Witness ==
    /\ Responded
    /\ ~isDevFeaturesEnabled
    /\ PromptResourceScopes =
           << [indicator |-> RealIndicator, scopeNames |-> <<"ghost", "write">>] >>
    /\ body.missingResourceScopes =
           << [resource |-> [id |-> "res1", name |-> "API One"],
               scopes |-> << [id |-> "s-write", name |-> "write"] >>] >>

\* C9: no record of a response, in the global list or in the list of an
\* organization, of a resource or of the reserved organization resource, has
\* an empty list of scopes.
C9_NoEmptyScopes ==
    Responded => \A r \in ResponseRecords : Len(r.scopes) > 0
C9_Witness ==
    /\ Responded
    /\ isDevFeaturesEnabled
    /\ PromptResourceScopes =
           << [indicator |-> ReservedOrganization, scopeNames |-> <<"ghost">>],
              [indicator |-> RealIndicator, scopeNames |-> <<"read">>] >>
    /\ Len(body.missingResourceScopes) = 1
    /\ body.missingResourceScopes[1].resource.id = "res1"
    /\ Len(body.organizations) = 2
    /\ body.organizations[2].missingResourceScopes = <<>>

\* C10: a GET without session fails with session.not_found; with a session
\* and a client_id that is absent or not a string, with invalid-client; with a
\* session, a client id and a redirect_uri that is absent or not a string,
\* with invalid-redirect-uri; none of them calls a collaborator or sets a body.
C10_Expected ==
    IF ~GetSession.present THEN SessionNotFound
    ELSE IF GetClientId.type # "string" THEN InvalidClient
    ELSE InvalidRedirectUri
C10_GetPreconditionFailures ==
    /\ request.method = "GET"
    /\ \/ ~GetSession.present
       \/ GetClientId.type # "string"
       \/ UsableString(GetClientId) /\ GetRedirectUri.type # "string"
    /\ pc # "received"
    => /\ pc = "failed"
       /\ error = C10_Expected
       /\ body = NoBody
       /\ calls = <<>>
C10_Witness ==
    /\ request.method = "GET"
    /\ GetSession.present
    /\ UsableString(GetClientId)
    /\ GetRedirectUri = NumberParam
    /\ pc = "failed"
    /\ error = InvalidRedirectUri

\* The entries filterAndParseMissingResourceScopes hands to
\* parseMissingResourceScopesInfo for the prompt of the request, in the context
\* of an organization (NoOrganization for the global list).
HandedToEnricher(organizationId) ==
    ObjectFromEntries([i \in 1..Len(PromptResourceScopes) |->
        FilteredEntry(isDevFeaturesEnabled, PromptResourceScopes[i],
                      GetSession.accountId, organizationId)])
Contexts == {NoOrganization} \cup OrganizationIds

\* C11: with the dev features disabled findResourceScopes is never called, the
\* entries handed to parseMissingResourceScopesInfo are the prompt's entries,
\* names and order unchanged, in every context, the global list of a response
\* is what parseMissingResourceScopesInfo makes of the prompt's entries, and
\* every organization of a response has the fields id and name and no other.
C11_FilterSkippedWhenDisabled ==
    ~isDevFeaturesEnabled /\ request.method = "GET" =>
        /\ \A i \in 1..Len(calls) : calls[i].op # "findResourceScopes"
        /\ GetUsable =>
              \A organizationId \in Contexts :
                  HandedToEnricher(organizationId) = PromptResourceScopes
        /\ Responded =>
              /\ \A order \in Orders(Len(PromptResourceScopes)) :
                    body.missingResourceScopes =
                        parseMissingResourceScopesInfo(
                            Present(PromptResourceScopes), order).value
              /\ \A i \in 1..Len(body.organizations) :
                    DOMAIN body.organizations[i] = {"id", "name"}
C11_Witness ==
    /\ ~isDevFeaturesEnabled
    /\ Responded
    /\ PromptResourceScopes =
           << [indicator |-> RealIndicator, scopeNames |-> <<"write", "read">>] >>
    /\ body.missingResourceScopes =
           << [resource |-> [id |-> "res1", name |-> "API One"],
               scopes |-> << [id |-> "s-write", name |-> "write"],
                             [id |-> "s-read", name |-> "read"] >>] >>
    /\ body.organizations =
           << [name |-> "Acme", id |-> "org1"], [name |-> "Globex", id |-> "org2"] >>
    /\ \A i \in 1..Len(calls) : calls[i].op # "findResourceScopes"

\* The indicator of the resource of a record of a response.
RecordIndicator(r) ==
    IF r.resource.id = ReservedOrganization
    THEN ReservedOrganization
    ELSE (CHOOSE res \in ResourceStore : res.id = r.resource.id).indicator
\* Every scope of the list is one the prompt asks for, for the indicator of
\* its record, and one the resolver returns for the indicator in the context.
SurfacedWithin(list, organizationId) ==
    \A r \in Range(list) :
        \A k \in 1..Len(r.scopes) :
            /\ r.scopes[k].name \in RequestedNames(RecordIndicator(r))
            /\ r.scopes[k].name \in
                   findResourceScopes(RecordIndicator(r), GetSession.accountId,
                                      organizationId # NoOrganization, organizationId)
ResolverCallsLogged == SelectSeq(calls, LAMBDA c : c.op = "findResourceScopes")

InsertCalls == { i \in 1..Len(calls) : calls[i].op = "insert" }
\* An insert has settled when the consent call that follows it is logged.
SettledInserts == { i \in InsertCalls : i < Len(calls) }

Position(all, x) == CHOOSE i \in 1..Len(all) : all[i] = x
InOrderOf(sub, all) ==
    /\ \A k \in 1..Len(sub) : sub[k] \in Range(all)
    /\ \A k, l \in 1..Len(sub) : k < l => Position(all, sub[k]) < Position(all, sub[l])
PromptIndicatorList ==
    [i \in 1..Len(PromptResourceScopes) |-> PromptResourceScopes[i].indicator]
PromptNames(indicator) ==
    PromptResourceScopes[Position(PromptIndicatorList, indicator)].scopeNames

\* C14: in every list of missing resource scopes of a response, whatever the
\* order the lookups settled in, the records are in the order of their
\* indicators in the prompt and the scopes of a record are in the order of
\* their names in the prompt's entry; the three joins (the filter's map, the
\* enricher's map, the scope lookups of a resource) give the values by index
\* for every order of settling.
C14_OutputInInputOrder ==
    /\ Responded =>
          \A list \in ResponseLists :
              /\ InOrderOf([k \in 1..Len(list) |-> RecordIndicator(list[k])],
                           PromptIndicatorList)
              /\ \A k \in 1..Len(list) :
                    InOrderOf([j \in 1..Len(list[k].scopes) |-> list[k].scopes[j].name],
                              PromptNames(RecordIndicator(list[k])))
    /\ GetUsable =>
          \A organizationId \in Contexts :
              LET filtered == [i \in 1..Len(PromptResourceScopes) |->
                                  FilteredEntry(isDevFeaturesEnabled, PromptResourceScopes[i],
                                                GetSession.accountId, organizationId)]
                  entries == [i \in 1..Len(filtered) |->
                                 MissingResourceScopesEntry(
                                     filtered[i].indicator, filtered[i].scopeNames)]
              IN \A order \in Orders(Len(PromptResourceScopes)) :
                    /\ PromiseAll([i \in 1..Len(filtered) |-> Resolved(filtered[i])],
                                  order).value = filtered
                    /\ (\A i \in 1..Len(entries) : entries[i].ok) =>
                          PromiseAll(entries, order).value =
                              [i \in 1..Len(entries) |-> entries[i].value]
    /\ GetUsable =>
          \A i \in 1..Len(PromptResourceScopes) :
              LET names == PromptResourceScopes[i].scopeNames
                  resource == findResourceByIndicator(PromptResourceScopes[i].indicator)
                  lookups == [k \in 1..Len(names) |->
                                 Resolved(findScopeByNameAndResourceId(
                                              names[k], resource.value.id))]
              IN resource.found =>
                    \A order \in Orders(Len(names)) :
                        PromiseAll(lookups, order).value =
                            [k \in 1..Len(names) |-> lookups[k].value]
C14_Witness ==
    /\ Responded
    /\ ~isDevFeaturesEnabled
    /\ PromptResourceScopes =
           << [indicator |-> RealIndicator, scopeNames |-> <<"write", "read">>],
              [indicator |-> ReservedOrganization, scopeNames |-> <<"write", "read">>] >>
    /\ body.missingResourceScopes =
           << [resource |-> [id |-> "res1", name |-> "API One"],
               scopes |-> << [id |-> "s-write", name |-> "write"],
                             [id |-> "s-read", name |-> "read"] >>],
              [resource |-> [id |-> ReservedOrganization, name |-> ReservedOrganization],
               scopes |-> << [id |-> "os-write", name |-> "write"],
                             [id |-> "os-read", name |-> "read"] >>] >>

(***************************************************************************)
(* Properties of GET consent while resources are deleted, checked under    *)
(* SpecGetRace.                                                            *)
(***************************************************************************)
\* One of the lookups the handler makes for the prompt in the context, with
\* the rows as they are, rejects.
SubLookupFails(organizationId) ==
    \E i \in 1..Len(HandedToEnricher(organizationId)) :
        ~MissingResourceScopesEntry(HandedToEnricher(organizationId)[i].indicator,
                                    HandedToEnricher(organizationId)[i].scopeNames).ok
UserOrganizations ==
    IF RequestsOrganizations(PromptOIDCScope)
    THEN getOrganizationsByUserId(memberships, GetSession.accountId)
    ELSE <<>>
NoResponse ==
    /\ pc' = "failed"
    /\ error'.name = "InvalidTarget"
    /\ body' = NoBody

\* C15: when a lookup of the global list rejects, or a lookup of the list of
\* one organization does, the step that joins them fails the request with
\* invalid-target and sets no body, whatever the order the lookups settle in
\* and whatever resolved (the global list, the other organizations); a
\* request that failed has no body, and a body is only set by a request that
\* is done.
C15_NoPartialResponse ==
    [][ /\ /\ request.method = "GET"
           /\ pc = "resolving"
           /\ pc' # pc
           /\ SubLookupFails(NoOrganization)
           => NoResponse
        /\ /\ request.method = "GET"
           /\ pc = "organizations"
           /\ pc' # pc
           /\ isDevFeaturesEnabled
           /\ \E i \in 1..Len(UserOrganizations) : SubLookupFails(UserOrganizations[i].id)
           => NoResponse
        /\ request.method = "GET" /\ pc' = "failed" => body' = NoBody
        /\ request.method = "GET" /\ body' # NoBody => pc' = "done" /\ error' = NoError
      ]_vars
C15_Witness ==
    /\ request.method = "GET"
    /\ isDevFeaturesEnabled
    /\ pc = "failed"
    /\ error = InvalidTarget("resource", RealIndicator)
    /\ body = NoBody
    /\ local.missingResourceScopes =
           << [resource |-> [id |-> "res1", name |-> "API One"],
               scopes |-> << [id |-> "s-read", name |-> "read"] >>] >>
    /\ Len(UserOrganizations) = 2
    /\ Len(PromptResourceScopes) = 2
    /\ PromptResourceScopes[2].indicator = ReservedOrganization
    /\ resources = {}
====
